---- MODULE Spec2Model ----
(***************************************************************************)
(* State-machine model of the KC Jain Advocate backend (src/app.py): the   *)
(* SQLite tables, the uploads directory, the wall clock and the last       *)
(* request/response pair.  One action per HTTP handler.                    *)
(*                                                                         *)
(* Conventions                                                             *)
(*  - a table is a function whose DOMAIN is the set of primary keys stored *)
(*  - a bearer token is <<"tok", n>>; <<>> is the empty/missing token      *)
(*  - a request body is [named |-> set of keys present, val |-> values]    *)
(*  - a file on disk is a record [dir, n, tmp]; n is the uuid4 drawn       *)
(*  - uuid4() draws are fresh (counters nextToken, nextFile, nextQr)       *)
(*  - columns that every handler treats exactly like `category` (text,     *)
(*    style, author, featured, language, seo fields) are represented by    *)
(*    `category`; `priority` only orders the list and is not modelled      *)
(***************************************************************************)
EXTENDS Integers, Sequences, FiniteSets, TLC

VARIABLES now, admin_users, sessions, nextToken, content, qr_data,
          profile_config, settings, activity_log, disk, nextFile, nextQr, last,
          inflight

vars == <<now, admin_users, sessions, nextToken, content, qr_data,
          profile_config, settings, activity_log, disk, nextFile, nextQr, last,
          inflight>>

-----------------------------------------------------------------------------
(* Bounds of the model *)
MaxTicks == 2
TickStep == 43200
MaxLogins == 2
MaxLog == 4
MaxFiles == 2
MaxContent == 2
MaxQr == 2
MaxViews == 1
MaxScans == 2
MaxProcs == 2

(* Program constants *)
SESSION_TTL == 86400

-----------------------------------------------------------------------------
(* Small helpers *)
Upsert(tbl, k, row) == [i \in DOMAIN tbl \cup {k} |-> IF i = k THEN row ELSE tbl[i]]

(* dict.get(key, default) on a request body *)
Get(d, k, default) == IF k \in d.named THEN d.val[k] ELSE default

-----------------------------------------------------------------------------
(* Tokens, passwords, emails *)
NoToken == <<>>
Token(n) == <<"tok", n>>
ForgedToken == <<"forged", 0>>

(* hashlib.sha256(password).hexdigest(): injective on the passwords used *)
Sha256(pw) == <<"sha256", pw>>

(* email.lower().strip() *)
Canon(email) == IF email = " KCJain@Gmail.com " THEN "kcjain@gmail.com" ELSE email

-----------------------------------------------------------------------------
(* URLs and files.  An upload URL /uploads/<dir>/<n> names the disk file   *)
(* [dir, n, tmp |-> FALSE]; <n>.tmp is the same with tmp |-> TRUE.         *)
EmptyUrl == [site |-> "", dir |-> "", n |-> 0]
UploadUrl(dir, n) == [site |-> "/uploads/", dir |-> dir, n |-> n]
YoutubeWatch == [site |-> "youtube.com/watch?v=", dir |-> "", n |-> 0]
YoutubeEmbed == [site |-> "youtube.com/embed/", dir |-> "", n |-> 0]
DefaultProfileUrl == UploadUrl("profile", 0)

File(dir, n) == [dir |-> dir, n |-> n, tmp |-> FALSE]
TempFile(dir, n) == [dir |-> dir, n |-> n, tmp |-> TRUE]
FileOfUrl(u) == File(u.dir, u.n)

get_embeddable_url(url) ==
    IF url.site = "/uploads/" THEN url
    ELSE IF url = YoutubeWatch THEN YoutubeEmbed
    ELSE url

(* The uploads a request can carry, by what save_base64_file makes of them *)
FileKinds == {"image", "corrupt", "oversize", "undecodable", "video", "pdf"}

get_file_type(kind) ==
    CASE kind \in {"image", "corrupt", "oversize"} -> "image"
      [] kind = "video" -> "video"
      [] kind = "pdf" -> "pdf"
      [] OTHER -> "other"

SaveFolder(kind, subfolder) ==
    IF subfolder = "profile" THEN "profile"
    ELSE CASE get_file_type(kind) = "image" -> "images"
           [] get_file_type(kind) = "video" -> "videos"
           [] get_file_type(kind) = "pdf" -> "documents"
           [] OTHER -> "others"

NoFile == [ok |-> FALSE, type |-> "", url |-> EmptyUrl, thumbnail |-> EmptyUrl]

(* A save_base64_file without the clean-up of the verification failure *)
save_base64_file_keeping_temp(kind, subfolder, n, d) ==
    LET dir == SaveFolder(kind, subfolder) IN
    CASE kind \in {"undecodable", "oversize"} -> [res |-> NoFile, disk |-> d]
      [] kind = "corrupt" -> [res |-> NoFile, disk |-> d \cup {TempFile(dir, n)}]
      [] kind = "image" ->
            [res |-> [ok |-> TRUE, type |-> "image", url |-> UploadUrl(dir, n),
                      thumbnail |-> UploadUrl("thumbnails", n)],
             disk |-> d \cup {File(dir, n), File("thumbnails", n)}]
      [] OTHER ->
            [res |-> [ok |-> TRUE, type |-> get_file_type(kind), url |-> UploadUrl(dir, n),
                      thumbnail |-> EmptyUrl],
             disk |-> d \cup {File(dir, n)}]

(* save_base64_file: the descriptor returned (NoFile for None) and the     *)
(* disk afterwards, for upload `kind` given the uuid4 name n               *)
save_base64_file(kind, subfolder, n, d) ==
    LET dir == SaveFolder(kind, subfolder) IN
    CASE kind = "undecodable" -> [res |-> NoFile, disk |-> d]
      [] kind = "oversize" -> [res |-> NoFile, disk |-> d]
      [] kind = "corrupt" ->
            [res |-> NoFile, disk |-> (d \cup {TempFile(dir, n)}) \ {TempFile(dir, n)}]
      [] kind = "image" ->
            [res |-> [ok |-> TRUE, type |-> "image", url |-> UploadUrl(dir, n),
                      thumbnail |-> UploadUrl("thumbnails", n)],
             disk |-> ((d \cup {TempFile(dir, n)}) \cup {File(dir, n), File("thumbnails", n)})
                         \ {TempFile(dir, n)}]
      [] OTHER ->
            [res |-> [ok |-> TRUE, type |-> get_file_type(kind), url |-> UploadUrl(dir, n),
                      thumbnail |-> EmptyUrl],
             disk |-> ((d \cup {TempFile(dir, n)}) \ {TempFile(dir, n)}) \cup {File(dir, n)}]

(* The `for file_data in files` loop of the handlers: every file is        *)
(* ingested in order, file i under the uuid4 name n0 + i - 1               *)
RECURSIVE IngestAll(_, _, _, _)
IngestAll(files, subfolder, n0, d) ==
    IF files = <<>> THEN [saved |-> <<>>, disk |-> d]
    ELSE LET one == save_base64_file(Head(files), subfolder, n0, d)
             rest == IngestAll(Tail(files), subfolder, n0 + 1, one.disk)
         IN [saved |-> <<one.res>> \o rest.saved, disk |-> rest.disk]

RECURSIVE ImagesOf(_)
ImagesOf(saved) ==
    IF saved = <<>> THEN <<>>
    ELSE (IF Head(saved).ok /\ Head(saved).type = "image"
          THEN <<[url |-> Head(saved).url, thumbnail |-> Head(saved).thumbnail]>>
          ELSE <<>>) \o ImagesOf(Tail(saved))

(* video_url after the loop: the last ingested video wins, else `start` *)
RECURSIVE VideoOf(_, _)
VideoOf(saved, start) ==
    IF saved = <<>> THEN start
    ELSE VideoOf(Tail(saved),
                 IF Head(saved).ok /\ Head(saved).type = "video" THEN Head(saved).url ELSE start)

RECURSIVE MediaTypeOf(_, _)
MediaTypeOf(saved, mt) ==
    IF saved = <<>> THEN mt
    ELSE MediaTypeOf(Tail(saved),
            IF Head(saved).ok /\ Head(saved).type = "image"
            THEN (IF mt \in {"", "image"} THEN "image" ELSE "mixed")
            ELSE IF Head(saved).ok /\ Head(saved).type = "video"
            THEN (IF mt \in {"", "video"} THEN "video" ELSE "mixed")
            ELSE mt)

RECURSIVE FileCountOf(_)
FileCountOf(saved) ==
    IF saved = <<>> THEN 0
    ELSE (IF Head(saved).ok THEN 1 ELSE 0) + FileCountOf(Tail(saved))

-----------------------------------------------------------------------------
(* Request bodies *)
ContentKeys == {"id", "type", "title", "category", "tags", "videoUrl"}
ContentBlank == [id |-> 0, type |-> "", title |-> "", category |-> "",
                 tags |-> <<"list">>, videoUrl |-> EmptyUrl]
QrKeys == {"treeName", "location", "healthStatus"}
QrBlank == [treeName |-> "", location |-> "", healthStatus |-> ""]

(* The JSON object holding exactly the keys `named`, with `full`'s values *)
MkData(keys, blank, named, full) ==
    [named |-> named, val |-> [k \in keys |-> IF k \in named THEN full[k] ELSE blank[k]]]

NoData == MkData(ContentKeys, ContentBlank, {}, ContentBlank)
NoBody == [error |-> ""]

(* tags in a request: <<"list", items...>> is a JSON array, <<"str", s>> a *)
(* JSON string.  json.dumps of the array, the string kept as it is.        *)
JsonDumpsTags(t) == IF Len(t) = 1 THEN "[]" ELSE "[\"" \o t[2] \o "\"]"
IsList(t) == t[1] = "list"
Truthy(t) == IF IsList(t) THEN Len(t) > 1 ELSE t[2] # ""

-----------------------------------------------------------------------------
(* Sessions *)

(* A token check that never looks at the expiry column *)
SessionMatchesAnyAge(s, tok, t) == s.token = tok

(* WHERE token = ? AND expires_at > ?  (time.time()) *)
SessionMatches(s, tok, t) == s.token = tok /\ s.expires_at > t

(* The bearer-token block shared by the authenticated handlers: the id of  *)
(* the admin user the token resolves to, 0 for admin_info = None           *)
AdminInfo(tok) ==
    LET hit == {s \in sessions : SessionMatches(s, tok, now)} IN
    IF tok = NoToken \/ hit = {} THEN 0
    ELSE LET uid == (CHOOSE s \in hit : TRUE).user_id IN
         IF uid \in DOMAIN admin_users THEN uid ELSE 0

(* verify_token's JOIN of sessions and admin_users *)
VerifyRows(tok) ==
    {s \in sessions : SessionMatches(s, tok, now) /\ s.user_id \in DOMAIN admin_users}

(* A logout that ends every session of the token's user *)
SessionsAfterLogoutOfUser(tok) ==
    {s \in sessions : \A o \in sessions : o.token = tok => s.user_id # o.user_id}

(* A DELETE without the WHERE clause *)
SessionsAfterLogoutOfAll(tok) == {}

(* DELETE FROM sessions WHERE token = ? *)
SessionsAfterLogout(tok) == {s \in sessions : s.token # tok}

(* verify_admin's SELECT: email, password hash and Active status all match *)
MatchingUsers(email, password) ==
    {u \in DOMAIN admin_users :
        /\ admin_users[u].email = email
        /\ admin_users[u].password_hash = Sha256(password)
        /\ admin_users[u].status = "Active"}

log_activity(log, user_id, action, entity_type, entity_id) ==
    Append(log, [user_id |-> user_id, action |-> action,
                 entity_type |-> entity_type, entity_id |-> entity_id])

Unauthorized(tok) ==
    IF tok = NoToken THEN [error |-> "No token provided"]
    ELSE [error |-> "Invalid or expired token"]

-----------------------------------------------------------------------------
(* The requests being served by the worker threads.  A thread is idle, or *)
(* has read the row it is going to write (pc = "read": token, body, the    *)
(* row as it was read, the file it saved and the time it took), or has     *)
(* returned (pc = "done", with the status code and version it answered).   *)
Procs == 1..MaxProcs
Idle == [pc |-> "idle", op |-> "", token |-> NoToken, uid |-> 0, id |-> 0, data |-> NoData,
         files |-> <<>>, seen |-> <<>>, saved |-> NoFile, at |-> 0, version |-> 0,
         code |-> 0]

Init ==
    /\ now = 0
    /\ admin_users =
         [u \in {1, 2} |->
            [email |-> IF u = 1 THEN "kcjain@gmail.com" ELSE "shivamsharmaanna@gmail.com",
             password_hash |-> Sha256("admin123"),
             role |-> IF u = 1 THEN "super_admin" ELSE "admin",
             status |-> "Active", login_count |-> 0, last_login |-> 0]]
    /\ sessions = {}
    /\ nextToken = 1
    /\ content = [i \in {} |-> 0]
    /\ qr_data = [i \in {} |-> 0]
    /\ profile_config = [value |-> DefaultProfileUrl, thumbnail |-> DefaultProfileUrl,
                         meta_has_version |-> FALSE, meta_version |-> 0,
                         version |-> 1, updated_at |-> 0, created_at |-> 0]
    /\ settings = [k \in {"site_title", "maintenance_mode"} |->
                     IF k = "site_title" THEN "KC Jain - Supreme Court Advocate" ELSE "false"]
    /\ activity_log = <<>>
    /\ disk = {File("profile", 0)}
    /\ nextFile = 1
    /\ nextQr = 1
    /\ last = [op |-> "init", token |-> NoToken, id |-> 0, data |-> NoData,
               files |-> <<>>, code |-> 0, body |-> NoBody]
    /\ inflight = [p \in Procs |-> Idle]

Request(op, tok, id, data, files, code, body) ==
    [op |-> op, token |-> tok, id |-> id, data |-> data, files |-> files,
     code |-> code, body |-> body]

(* time.time() / datetime.now() advancing between requests *)
Tick ==
    /\ now < MaxTicks * TickStep
    /\ now' = now + TickStep
    /\ UNCHANGED <<admin_users, sessions, nextToken, content, qr_data, profile_config,
                   settings, activity_log, disk, nextFile, nextQr, last, inflight>>

(* The JSON body of a login request *)
LoginData(rawEmail, password) ==
    [named |-> {"email", "password"}, val |-> [email |-> rawEmail, password |-> password]]

(* A refusal that tells an unknown email from a wrong password *)
LoginRefusedTelling(email) ==
    IF \E u \in DOMAIN admin_users : admin_users[u].email = email
    THEN [code |-> 401, body |-> [error |-> "Wrong password"]]
    ELSE [code |-> 404, body |-> [error |-> "Unknown email"]]

(* login's answer when verify_admin returns False *)
LoginRefused(email) == [code |-> 401, body |-> [error |-> "Invalid email or password"]]

(* An INSERT of the session that first ends the user's earlier sessions *)
SessionsAfterLoginRotating(uid, tok) ==
    {s \in sessions : s.user_id # uid} \cup
        {[token |-> tok, user_id |-> uid, created_at |-> now,
          expires_at |-> now + SESSION_TTL]}

(* INSERT INTO sessions: the token expires 24 hours from now *)
SessionsAfterLogin(uid, tok) ==
    sessions \cup {[token |-> tok, user_id |-> uid, created_at |-> now,
                    expires_at |-> now + SESSION_TTL]}

(* POST /api/auth/login *)
Login(rawEmail, password) ==
    LET email == Canon(rawEmail)
        hit == MatchingUsers(email, password)
    IN  IF hit # {}
        THEN LET uid == CHOOSE u \in hit : TRUE IN
             /\ nextToken <= MaxLogins
             /\ Len(activity_log) < MaxLog
             /\ admin_users' = [admin_users EXCEPT
                                  ![uid].login_count = @ + 1, ![uid].last_login = now]
             /\ sessions' = SessionsAfterLogin(uid, Token(nextToken))
             /\ nextToken' = nextToken + 1
             /\ activity_log' = log_activity(activity_log, uid, "login", "auth", <<"auth", uid>>)
             /\ last' = Request("login", NoToken, 0, LoginData(rawEmail, password), <<>>, 200,
                                [error |-> "", token |-> Token(nextToken),
                                 role |-> admin_users[uid].role])
             /\ UNCHANGED <<now, content, qr_data, profile_config, settings, disk,
                            nextFile, nextQr, inflight>>
        ELSE /\ last' = Request("login", NoToken, 0, LoginData(rawEmail, password), <<>>,
                                LoginRefused(email).code, LoginRefused(email).body)
             /\ UNCHANGED <<now, admin_users, sessions, nextToken, content, qr_data,
                            profile_config, settings, activity_log, disk, nextFile, nextQr,
                            inflight>>

(* A logout that refuses a token without a session *)
LogoutAnswerStrict(tok) ==
    IF \E s \in sessions : s.token = tok THEN [code |-> 200, body |-> NoBody]
    ELSE [code |-> 404, body |-> [error |-> "No such session"]]

(* logout's answer: success, whatever the token *)
LogoutAnswer(tok) == [code |-> 200, body |-> NoBody]

(* POST /api/auth/logout *)
Logout(tok) ==
    /\ sessions' = IF tok # NoToken THEN SessionsAfterLogout(tok) ELSE sessions
    /\ last' = Request("logout", tok, 0, NoData, <<>>, LogoutAnswer(tok).code,
                       LogoutAnswer(tok).body)
    /\ UNCHANGED <<now, admin_users, nextToken, content, qr_data, profile_config,
                   settings, activity_log, disk, nextFile, nextQr, inflight>>

(* POST /api/auth/verify *)
VerifyToken(tok) ==
    /\ last' = IF tok # NoToken /\ VerifyRows(tok) # {}
               THEN Request("verify", tok, 0, NoData, <<>>, 200, [error |-> "", valid |-> TRUE])
               ELSE Request("verify", tok, 0, NoData, <<>>, 401, [error |-> "", valid |-> FALSE])
    /\ UNCHANGED <<now, admin_users, sessions, nextToken, content, qr_data, profile_config,
                   settings, activity_log, disk, nextFile, nextQr, inflight>>

-----------------------------------------------------------------------------
(* What a handler does to the store, the disk and the log, and its answer. *)
(* Same is the handler that touches nothing.                               *)
Same == [code |-> 200, body |-> NoBody, content |-> content, qr_data |-> qr_data,
         profile_config |-> profile_config, settings |-> settings, disk |-> disk,
         nextFile |-> nextFile, nextQr |-> nextQr, log |-> activity_log]

Answer(code, body) == [Same EXCEPT !.code = code, !.body = body]

(* Commit a handler's outcome r and return the answer of request           *)
(* (op, tok, id, ...)                                                      *)
Commit(op, tok, id, data, files, r) ==
    /\ Len(r.log) <= MaxLog
    /\ r.nextFile <= MaxFiles + 1
    /\ r.nextQr <= MaxQr + 1
    /\ content' = r.content
    /\ qr_data' = r.qr_data
    /\ profile_config' = r.profile_config
    /\ settings' = r.settings
    /\ disk' = r.disk
    /\ nextFile' = r.nextFile
    /\ nextQr' = r.nextQr
    /\ activity_log' = r.log
    /\ last' = Request(op, tok, id, data, files, r.code, r.body)
    /\ UNCHANGED <<now, admin_users, sessions, nextToken>>

(* A handler that runs from its first statement to its return while no     *)
(* other request is being served                                           *)
Apply(op, tok, id, data, files, r) ==
    /\ Commit(op, tok, id, data, files, r)
    /\ UNCHANGED inflight

-----------------------------------------------------------------------------
(* Content *)

(* A selection that leaves the status column out *)
AnyStatus(tbl) == DOMAIN tbl

(* WHERE status = "Active" *)
Active(tbl) == {i \in DOMAIN tbl : tbl[i].status = "Active"}

(* The media array get_content builds from image_urls and video_url *)
RECURSIVE ImageMedia(_)
ImageMedia(images) ==
    IF images = <<>> THEN <<>>
    ELSE <<[type |-> "image", url |-> get_embeddable_url(Head(images).url),
            thumbnail |-> get_embeddable_url(Head(images).thumbnail)]>>
         \o ImageMedia(Tail(images))

(* A media array built from the images alone *)
ContentMediaImagesOnly(row) == ImageMedia(row.image_urls)

ContentMedia(row) ==
    ImageMedia(row.image_urls) \o
    (IF row.video_url # EmptyUrl
     THEN <<[type |-> "video", url |-> get_embeddable_url(row.video_url),
             thumbnail |-> EmptyUrl]>>
     ELSE <<>>)

(* uuid4-generated content id: one not in use *)
FreeContentIds == (1..MaxContent) \ DOMAIN content
GenContentId == CHOOSE i \in FreeContentIds : \A j \in FreeContentIds : i <= j

(* The row save_content inserts (INSERT OR REPLACE: views back to the default) *)
NewContentRow(data, saved, t) ==
    LET tags == Get(data, "tags", <<"list">>) IN
    [type |-> Get(data, "type", "post"),
     title |-> Get(data, "title", ""),
     category |-> Get(data, "category", "General"),
     image_urls |-> ImagesOf(saved),
     video_url |-> VideoOf(saved, Get(data, "videoUrl", EmptyUrl)),
     created_date |-> t,
     updated_date |-> t,
     status |-> "Active",
     media_type |-> MediaTypeOf(saved, ""),
     file_count |-> FileCountOf(saved),
     tags |-> IF IsList(tags) THEN JsonDumpsTags(tags) ELSE tags[2],
     views |-> 0]

(* An UPDATE that adds the new images to the stored ones *)
UpdatedContentRowAppending(existing, data, saved, t) ==
    [existing EXCEPT
       !.type = Get(data, "type", existing.type),
       !.title = Get(data, "title", existing.title),
       !.category = Get(data, "category", existing.category),
       !.image_urls = existing.image_urls \o ImagesOf(saved),
       !.video_url = VideoOf(saved, Get(data, "videoUrl", existing.video_url)),
       !.updated_date = t]

(* The row update_content's UPDATE leaves *)
UpdatedContentRow(existing, data, saved, t) ==
    LET tags == Get(data, "tags", <<"list">>)
        images == ImagesOf(saved)
    IN [existing EXCEPT
          !.type = Get(data, "type", existing.type),
          !.title = Get(data, "title", existing.title),
          !.category = Get(data, "category", existing.category),
          !.image_urls = IF images = <<>> THEN existing.image_urls ELSE images,
          !.video_url = VideoOf(saved, Get(data, "videoUrl", existing.video_url)),
          !.updated_date = t,
          !.media_type = existing.media_type,
          !.file_count = IF FileCountOf(saved) # 0 THEN FileCountOf(saved)
                         ELSE existing.file_count,
          !.tags = IF IsList(tags) THEN JsonDumpsTags(tags)
                   ELSE IF Truthy(tags) THEN tags[2] ELSE existing.tags]

(* An UPDATE that flips the status *)
SoftDeleteRowToggling(row) ==
    [row EXCEPT !.status = IF @ = "Active" THEN "Inactive" ELSE "Active"]

(* UPDATE ... SET status = "Inactive" WHERE id = ? *)
SoftDeleteRow(row) == [row EXCEPT !.status = "Inactive"]

SoftDelete(tbl, id) ==
    IF id \in DOMAIN tbl THEN [tbl EXCEPT ![id] = SoftDeleteRow(tbl[id])] ELSE tbl

(* save_content after the token check *)
save_content_authed(uid, data, files) ==
    LET cid == IF Get(data, "id", 0) # 0 THEN data.val.id ELSE GenContentId
        ing == IngestAll(files, "", nextFile, disk)
        row == NewContentRow(data, ing.saved, now)
    IN [Same EXCEPT
          !.code = 200,
          !.body = [error |-> "", contentId |-> cid,
                    imageUrls |-> [i \in 1..Len(row.image_urls) |-> row.image_urls[i].url],
                    videoUrl |-> get_embeddable_url(row.video_url)],
          !.content = Upsert(content, cid, row),
          !.disk = ing.disk,
          !.nextFile = nextFile + Len(files),
          !.log = log_activity(activity_log, uid, "create", "content", <<"content", cid>>)]

(* A save_content that ingests the files before it looks at the token *)
save_content_ingest_first(tok, data, files) ==
    IF AdminInfo(tok) = 0
    THEN [Answer(401, Unauthorized(tok)) EXCEPT
            !.disk = IngestAll(files, "", nextFile, disk).disk,
            !.nextFile = nextFile + Len(files)]
    ELSE save_content_authed(AdminInfo(tok), data, files)

(* POST /api/content *)
save_content(tok, data, files) ==
    IF AdminInfo(tok) = 0 THEN Answer(401, Unauthorized(tok))
    ELSE save_content_authed(AdminInfo(tok), data, files)

SaveContent(tok, data, files) ==
    /\ Get(data, "id", 0) # 0 \/ FreeContentIds # {}
    /\ Apply("save_content", tok, 0, data, files, save_content(tok, data, files))

(* update_content once the row is known to exist *)
update_content_found(uid, id, data, files) ==
    LET ing == IngestAll(files, "", nextFile, disk) IN
    [Same EXCEPT
       !.code = 200,
       !.body = [error |-> "", contentId |-> id],
       !.content = [content EXCEPT ![id] = UpdatedContentRow(content[id], data, ing.saved, now)],
       !.disk = ing.disk,
       !.nextFile = nextFile + Len(files),
       !.log = log_activity(activity_log, uid, "update", "content", <<"content", id>>)]

(* An update_content that ingests the files before it looks the row up *)
update_content_ingest_first(tok, id, data, files) ==
    IF AdminInfo(tok) = 0 THEN Answer(401, Unauthorized(tok))
    ELSE IF id \notin DOMAIN content
    THEN [Answer(404, [error |-> "Content not found"]) EXCEPT
            !.disk = IngestAll(files, "", nextFile, disk).disk,
            !.nextFile = nextFile + Len(files)]
    ELSE update_content_found(AdminInfo(tok), id, data, files)

(* PUT /api/content/<id> *)
update_content(tok, id, data, files) ==
    IF AdminInfo(tok) = 0 THEN Answer(401, Unauthorized(tok))
    ELSE IF id \notin DOMAIN content THEN Answer(404, [error |-> "Content not found"])
    ELSE update_content_found(AdminInfo(tok), id, data, files)

UpdateContent(tok, id, data, files) ==
    Apply("update_content", tok, id, data, files, update_content(tok, id, data, files))

(* DELETE /api/content/<id> *)
delete_content(tok, id) ==
    IF AdminInfo(tok) = 0 THEN Answer(401, Unauthorized(tok))
    ELSE [Same EXCEPT
            !.code = 200,
            !.body = [error |-> "", contentId |-> id],
            !.content = SoftDelete(content, id),
            !.log = log_activity(activity_log, AdminInfo(tok), "delete", "content",
                                 <<"content", id>>)]

DeleteContent(tok, id) ==
    Apply("delete_content", tok, id, NoData, <<>>, delete_content(tok, id))

(* A lookup by id alone *)
ContentLookupAnyStatus(id) == {i \in DOMAIN content : i = id}

(* SELECT FROM content WHERE id = ? AND status = "Active" *)
ContentLookup(id) == {i \in Active(content) : i = id}

(* A get_content that counts the view before it looks the row up *)
get_content_counting_first(id) ==
    LET bumped == IF id \in DOMAIN content THEN [content EXCEPT ![id].views = @ + 1]
                  ELSE content
    IN  IF ContentLookup(id) = {}
        THEN [Answer(404, [error |-> "Content not found"]) EXCEPT !.content = bumped]
        ELSE [Same EXCEPT
                !.code = 200,
                !.body = [error |-> "", item |-> content[id],
                          media |-> ContentMedia(content[id])],
                !.content = bumped]

(* GET /api/content/<id> *)
get_content(id) ==
    IF ContentLookup(id) = {} THEN Answer(404, [error |-> "Content not found"])
    ELSE [Same EXCEPT
            !.code = 200,
            !.body = [error |-> "", item |-> content[id], media |-> ContentMedia(content[id])],
            !.content = [content EXCEPT ![id].views = @ + 1]]

GetContent(id) ==
    /\ id \in DOMAIN content => content[id].views < MaxViews
    /\ Apply("get_content", NoToken, id, NoData, <<>>, get_content(id))

(* The rows get_all_content selects; "" is an absent filter.  ORDER BY and  *)
(* LIMIT/OFFSET (100 and 0 unless given) return a slice of these rows.     *)
ContentListed(type, category) ==
    {i \in Active(content) :
        /\ type \in {"", "all"} \/ content[i].type = type
        /\ category = "" \/ content[i].category = category}

(* SELECT COUNT FROM content WHERE status = 'Active' *)
ContentTotal == Cardinality(Active(content))

(* GET /api/content *)
GetAllContent(type, category) ==
    Apply("get_all_content", NoToken, 0, NoData, <<>>,
          Answer(200, [error |-> "", ids |-> ContentListed(type, category),
                       total |-> ContentTotal]))

-----------------------------------------------------------------------------
(* Tree / QR records *)

(* The row generate_qr inserts; q is the TREE-xxxxxxxx id drawn.  The two  *)
(* PNGs written under qrcodes/ carry the id in their names.                *)
NewQrRow(data, saved, q, t) ==
    [tree_name |-> Get(data, "treeName", ""),
     location |-> Get(data, "location", ""),
     health_status |-> Get(data, "healthStatus", "Good"),
     qr_code_url |-> UploadUrl("qrcodes/styled", q),
     tree_image_urls |-> ImagesOf(saved),
     tree_video_url |-> VideoOf(saved, EmptyUrl),
     created_date |-> t,
     updated_date |-> t,
     status |-> "Active",
     qr_scan_count |-> 0,
     qr_download_count |-> 0,
     qr_print_count |-> 0]

(* The row update_qr's UPDATE leaves *)
UpdatedQrRow(existing, data, saved, t) ==
    LET images == ImagesOf(saved) IN
    [existing EXCEPT
       !.tree_name = Get(data, "treeName", existing.tree_name),
       !.location = Get(data, "location", existing.location),
       !.health_status = Get(data, "healthStatus", existing.health_status),
       !.tree_image_urls = IF images = <<>> THEN existing.tree_image_urls ELSE images,
       !.tree_video_url = VideoOf(saved, existing.tree_video_url),
       !.updated_date = t]

generate_qr_authed(uid, data, files) ==
    LET q == nextQr
        ing == IngestAll(files, "", nextFile, disk)
        row == NewQrRow(data, ing.saved, q, now)
    IN [Same EXCEPT
          !.code = 200,
          !.body = [error |-> "", qrId |-> q, qrCodeUrl |-> row.qr_code_url],
          !.qr_data = Upsert(qr_data, q, row),
          !.disk = ing.disk \cup {File("qrcodes", q), File("qrcodes/styled", q)},
          !.nextFile = nextFile + Len(files),
          !.nextQr = nextQr + 1,
          !.log = log_activity(activity_log, uid, "create", "qr", <<"qr", q>>)]

(* POST /api/qr *)
generate_qr(tok, data, files) ==
    IF AdminInfo(tok) = 0 THEN Answer(401, Unauthorized(tok))
    ELSE generate_qr_authed(AdminInfo(tok), data, files)

GenerateQr(tok, data, files) ==
    Apply("generate_qr", tok, 0, data, files, generate_qr(tok, data, files))

update_qr_found(uid, id, data, files) ==
    LET ing == IngestAll(files, "", nextFile, disk) IN
    [Same EXCEPT
       !.code = 200,
       !.body = [error |-> "", qrId |-> id],
       !.qr_data = [qr_data EXCEPT ![id] = UpdatedQrRow(qr_data[id], data, ing.saved, now)],
       !.disk = ing.disk,
       !.nextFile = nextFile + Len(files),
       !.log = log_activity(activity_log, uid, "update", "qr", <<"qr", id>>)]

(* PUT /api/qr/<id> *)
update_qr(tok, id, data, files) ==
    IF AdminInfo(tok) = 0 THEN Answer(401, Unauthorized(tok))
    ELSE IF id \notin DOMAIN qr_data THEN Answer(404, [error |-> "QR data not found"])
    ELSE update_qr_found(AdminInfo(tok), id, data, files)

UpdateQr(tok, id, data, files) ==
    Apply("update_qr", tok, id, data, files, update_qr(tok, id, data, files))

(* DELETE /api/qr/<id> *)
delete_qr(tok, id) ==
    IF AdminInfo(tok) = 0 THEN Answer(401, Unauthorized(tok))
    ELSE [Same EXCEPT
            !.code = 200,
            !.body = [error |-> "", qrId |-> id],
            !.qr_data = SoftDelete(qr_data, id),
            !.log = log_activity(activity_log, AdminInfo(tok), "delete", "qr", <<"qr", id>>)]

DeleteQr(tok, id) ==
    Apply("delete_qr", tok, id, NoData, <<>>, delete_qr(tok, id))

(* SELECT FROM qr_data WHERE id = ? AND status = "Active" *)
QrLookup(id) == {i \in Active(qr_data) : i = id}

QrMedia(row) ==
    IF row.tree_image_urls = <<>> THEN <<>>
    ELSE [i \in 1..Len(row.tree_image_urls) |->
            [type |-> "image", url |-> row.tree_image_urls[i].url,
             thumbnail |-> row.tree_image_urls[i].thumbnail]]
         \o (IF row.tree_video_url # EmptyUrl
             THEN <<[type |-> "video", url |-> row.tree_video_url, thumbnail |-> EmptyUrl]>>
             ELSE <<>>)

(* A get_qr that does not count the read *)
get_qr_uncounted(id) ==
    IF QrLookup(id) = {} THEN Answer(404, [error |-> "QR data not found"])
    ELSE [Same EXCEPT
            !.code = 200,
            !.body = [error |-> "", item |-> qr_data[id], media |-> QrMedia(qr_data[id])]]

(* GET /api/qr/<id> *)
get_qr(id) ==
    IF QrLookup(id) = {} THEN Answer(404, [error |-> "QR data not found"])
    ELSE [Same EXCEPT
            !.code = 200,
            !.body = [error |-> "", item |-> qr_data[id], media |-> QrMedia(qr_data[id])],
            !.qr_data = [qr_data EXCEPT ![id].qr_scan_count = @ + 1]]

GetQr(id) ==
    /\ id \in DOMAIN qr_data => qr_data[id].qr_scan_count < MaxScans
    /\ Apply("get_qr", NoToken, id, NoData, <<>>, get_qr(id))

(* The rows get_all_qr selects; "" is an absent filter (location is a      *)
(* substring match, here on whole values)                                  *)
QrListed(health, location) ==
    {i \in Active(qr_data) :
        /\ health = "" \/ qr_data[i].health_status = health
        /\ location = "" \/ qr_data[i].location = location}

QrTotal == Cardinality(Active(qr_data))

(* GET /api/qr *)
GetAllQr(health, location) ==
    Apply("get_all_qr", NoToken, 0, NoData, <<>>,
          Answer(200, [error |-> "", ids |-> QrListed(health, location), total |-> QrTotal]))

(* An UPDATE of the counter without the WHERE clause *)
BumpCounterEverywhere(tbl, id, counter) ==
    [i \in DOMAIN tbl |-> [tbl[i] EXCEPT ![counter] = @ + 1]]

(* UPDATE qr_data SET <counter> = <counter> + 1 WHERE id = ? *)
BumpCounter(tbl, id, counter) ==
    IF id \in DOMAIN tbl THEN [tbl EXCEPT ![id][counter] = @ + 1] ELSE tbl

(* POST /api/qr/scan/<id>, /api/qr/download/<id>, /api/qr/print/<id> *)
IncrementQr(op, counter, id) ==
    /\ id \in DOMAIN qr_data => qr_data[id][counter] < MaxViews
    /\ Apply(op, NoToken, id, NoData, <<>>,
             [Same EXCEPT !.qr_data = BumpCounter(qr_data, id, counter)])

IncrementQrScan(id) == IncrementQr("increment_qr_scan", "qr_scan_count", id)
IncrementQrDownload(id) == IncrementQr("increment_qr_download", "qr_download_count", id)
IncrementQrPrint(id) == IncrementQr("increment_qr_print", "qr_print_count", id)

-----------------------------------------------------------------------------
(* Statistics *)
(* A COUNT per type without the status test *)
CountTypeAnyStatus(t) == Cardinality({i \in DOMAIN content : content[i].type = t})

(* SELECT COUNT FROM content WHERE type = t AND status = 'Active' *)
CountType(t) == Cardinality({i \in Active(content) : content[i].type = t})

RECURSIVE SumOf(_, _, _)
SumOf(tbl, ids, column) ==
    IF ids = {} THEN 0
    ELSE LET i == CHOOSE j \in ids : TRUE
         IN tbl[i][column] + SumOf(tbl, ids \ {i}, column)

(* GET /api/stats *)
get_stats ==
    [error |-> "",
     cases |-> CountType("case"), posts |-> CountType("post"),
     blogs |-> CountType("blog"), announcements |-> CountType("announcement"),
     qr |-> QrTotal,
     totalContent |-> CountType("case") + CountType("post") + CountType("blog")
                        + CountType("announcement"),
     totalViews |-> SumOf(content, Active(content), "views"),
     totalQrScans |-> SumOf(qr_data, Active(qr_data), "qr_scan_count"),
     totalDownloads |-> SumOf(qr_data, Active(qr_data), "qr_download_count"),
     totalPrints |-> SumOf(qr_data, Active(qr_data), "qr_print_count")]

GetStats == Apply("get_stats", NoToken, 0, NoData, <<>>, Answer(200, get_stats))

-----------------------------------------------------------------------------
(* Profile image *)

(* 'default-profile' in path *)
IsDefaultProfile(u) == u = DefaultProfileUrl

(* '/uploads/profile/' in url *)
InProfileDir(u) == u.site = "/uploads/" /\ u.dir \in {"profile", "profile/thumb"}

(* version = old_metadata.get('version', 0) + 1 *)
NextProfileVersion(p) == (IF p.meta_has_version THEN p.meta_version ELSE 0) + 1

(* update_profile after the token check; kind is the upload *)
update_profile_authed(uid, kind) ==
    LET one == save_base64_file(kind, "profile", nextFile, disk)
        old == profile_config.value
        version == NextProfileVersion(profile_config)
    IN  IF one.res.ok
        THEN [Same EXCEPT
                !.code = 200,
                !.body = [error |-> "", profileImage |-> one.res.url, version |-> version],
                !.profile_config =
                    [profile_config EXCEPT
                       !.value = one.res.url,
                       !.thumbnail = IF one.res.thumbnail # EmptyUrl THEN one.res.thumbnail
                                     ELSE one.res.url,
                       !.updated_at = now,
                       !.meta_has_version = TRUE,
                       !.meta_version = version,
                       !.version = version],
                !.disk = IF IsDefaultProfile(old) THEN one.disk
                         ELSE one.disk \ {FileOfUrl(old)},
                !.nextFile = nextFile + 1,
                !.log = log_activity(activity_log, uid, "update", "profile",
                                     <<"profile", 0>>)]
        ELSE [Same EXCEPT
                !.code = 500,
                !.body = [error |-> "Failed to save file"],
                !.disk = one.disk,
                !.nextFile = nextFile + 1]

(* An update_profile that writes its log entry whatever the ingestion did *)
update_profile_logging_failures(tok, kind) ==
    IF AdminInfo(tok) = 0 THEN Answer(401, Unauthorized(tok))
    ELSE LET r == update_profile_authed(AdminInfo(tok), kind) IN
         IF r.code = 200 THEN r
         ELSE [r EXCEPT !.log = log_activity(activity_log, AdminInfo(tok), "update",
                                             "profile", <<"profile", 0>>)]

(* POST /api/profile *)
update_profile(tok, kind) ==
    IF AdminInfo(tok) = 0 THEN Answer(401, Unauthorized(tok))
    ELSE update_profile_authed(AdminInfo(tok), kind)

UpdateProfile(tok, kind) ==
    Apply("update_profile", tok, 0, NoData, <<kind>>, update_profile(tok, kind))

(* The token check of upload_profile_image and get_activity: the session   *)
(* row alone, no admin_users lookup                                        *)
SessionOnly(tok) == tok # NoToken /\ \E s \in sessions : SessionMatches(s, tok, now)

(* upload_profile_image after the token check.  The image is written       *)
(* straight to profile/profile_<uuid>.jpg, whatever its size; a file PIL  *)
(* cannot open keeps its bytes and serves as its own thumbnail.            *)
upload_profile_image_authed(kind) ==
    LET n == nextFile
        old == profile_config.value
        oldThumb == profile_config.thumbnail
        thumb == IF kind \in {"image", "oversize"} THEN UploadUrl("profile/thumb", n) ELSE UploadUrl("profile", n)
        gone == IF InProfileDir(old)
                THEN (IF IsDefaultProfile(old) THEN {} ELSE {FileOfUrl(old)}) \cup
                     (IF InProfileDir(oldThumb) /\ ~IsDefaultProfile(oldThumb)
                      THEN {FileOfUrl(oldThumb)} ELSE {})
                ELSE {}
    IN  IF kind = "empty" THEN Answer(400, [error |-> "No image data provided"])
        ELSE IF kind = "undecodable" THEN Answer(500, [error |-> "b64decode"])
        ELSE [Same EXCEPT
                !.code = 200,
                !.body = [error |-> "", profileImage |-> UploadUrl("profile", n)],
                !.profile_config = [profile_config EXCEPT
                                      !.value = UploadUrl("profile", n),
                                      !.thumbnail = thumb,
                                      !.updated_at = now],
                !.disk = (disk \cup {File("profile", n), FileOfUrl(thumb)}) \ gone,
                !.nextFile = nextFile + 1]

(* POST /api/profile/upload *)
upload_profile_image(tok, kind) ==
    IF ~SessionOnly(tok) THEN Answer(401, Unauthorized(tok))
    ELSE upload_profile_image_authed(kind)

UploadProfileImage(tok, kind) ==
    Apply("upload_profile_image", tok, 0, NoData, <<kind>>, upload_profile_image(tok, kind))

(* GET /api/profile (the later of the two definitions of the route's view) *)
GetProfile ==
    Apply("get_profile", NoToken, 0, NoData, <<>>,
          Answer(200, [error |-> "", profileImage |-> profile_config.value,
                       thumbnailUrl |-> profile_config.thumbnail]))

-----------------------------------------------------------------------------
(* Settings *)

(* json.dumps(value) for a list, str(value) otherwise *)
SettingValue(v) == IF v[1] = "list" THEN "[\"" \o v[2] \o "\"]" ELSE v[2]

(* POST /api/settings; key "" is a missing key *)
update_settings(tok, key, value) ==
    IF AdminInfo(tok) = 0 THEN Answer(401, Unauthorized(tok))
    ELSE IF key = "" THEN Answer(400, [error |-> "Key is required"])
    ELSE [Same EXCEPT
            !.code = 200,
            !.body = [error |-> "", key |-> key],
            !.settings = Upsert(settings, key, SettingValue(value)),
            !.log = log_activity(activity_log, AdminInfo(tok), "update", "settings",
                                 <<key, 0>>)]

UpdateSettings(tok, key, value) ==
    Apply("update_settings", tok, 0,
          [named |-> {"key", "value"}, val |-> [key |-> key, value |-> value]], <<>>,
          update_settings(tok, key, value))

(* GET /api/activity *)
GetActivity(tok) ==
    Apply("get_activity", tok, 0, NoData, <<>>,
          IF SessionOnly(tok)
          THEN Answer(200, [error |-> "", entries |-> Len(activity_log)])
          ELSE Answer(401, [error |-> IF tok = NoToken THEN "Unauthorized" ELSE "Invalid token"]))

-----------------------------------------------------------------------------
(* Requests the environment sends *)
TokenInputs == {NoToken, ForgedToken} \cup {Token(n) : n \in 1..(nextToken - 1)}
Emails == {"kcjain@gmail.com", " KCJain@Gmail.com ", "shivamsharmaanna@gmail.com",
           "nobody@example.com"}
Passwords == {"admin123", "wrong"}

ContentData(named, full) == MkData(ContentKeys, ContentBlank, named, full)
QrData(named, full) == MkData(QrKeys, QrBlank, named, full)

Req(data, files) == [data |-> data, files |-> files]

FullContent == [ContentBlank EXCEPT !.type = "case", !.title = "T1", !.category = "Law",
                                    !.tags = <<"list", "a">>]

ContentCreates ==
    {Req(ContentData({"type", "title", "category", "tags"}, FullContent), <<"image">>),
     Req(ContentData({"title", "videoUrl"},
                     [ContentBlank EXCEPT !.title = "T2", !.videoUrl = YoutubeWatch]), <<>>),
     Req(ContentData({}, ContentBlank), <<"video", "video">>),
     Req(ContentData({"type"}, [ContentBlank EXCEPT !.type = "note"]), <<"corrupt">>)}
    \cup {Req(ContentData({"id", "title"}, [ContentBlank EXCEPT !.id = i, !.title = "T1"]),
              <<>>) : i \in 1..MaxContent}

ContentUpdates ==
    {Req(ContentData({}, ContentBlank), <<"image">>),
     Req(ContentData({"title"}, [ContentBlank EXCEPT !.title = "T2"]), <<>>),
     Req(ContentData({"tags"}, [ContentBlank EXCEPT !.tags = <<"str", "">>]), <<"video">>),
     Req(ContentData({}, ContentBlank), <<"corrupt">>)}

QrCreates ==
    {Req(QrData({"treeName", "location", "healthStatus"},
                [treeName |-> "Banyan A", location |-> "Agra", healthStatus |-> "Fair"]),
         <<"image">>),
     Req(QrData({}, QrBlank), <<"video">>)}

QrUpdates ==
    {Req(QrData({"treeName"}, [QrBlank EXCEPT !.treeName = "Neem B"]), <<>>),
     Req(QrData({}, QrBlank), <<"image">>),
     Req(QrData({}, QrBlank), <<"corrupt">>)}

IssuedTokens == {Token(n) : n \in 1..(nextToken - 1)}

(* Content and QR records: create, read, update and soft delete by one     *)
(* logged-in admin, who works on one of the two tables (no handler of one  *)
(* table reads or writes the other), the clock advancing at most once; on  *)
(* the QR side there is a single tree record                               *)
Next ==
    \/ now < TickStep /\ Tick
    \/ sessions = {} /\ Login("kcjain@gmail.com", "admin123")
    \/ \E t \in IssuedTokens, r \in ContentCreates :
          DOMAIN qr_data = {} /\ SaveContent(t, r.data, r.files)
    \/ \E t \in IssuedTokens, i \in 1..MaxContent, r \in ContentUpdates :
          DOMAIN qr_data = {} /\ UpdateContent(t, i, r.data, r.files)
    \/ \E t \in IssuedTokens, i \in 1..MaxContent :
          DOMAIN qr_data = {} /\ DeleteContent(t, i)
    \/ \E i \in 1..MaxContent : GetContent(i)
    \/ \E ty \in {"", "case"} : GetAllContent(ty, "")
    \/ \E t \in IssuedTokens, r \in QrCreates :
          DOMAIN content = {} /\ DOMAIN qr_data = {} /\ GenerateQr(t, r.data, r.files)
    \/ \E t \in IssuedTokens, r \in QrUpdates :
          DOMAIN content = {} /\ UpdateQr(t, 1, r.data, r.files)
    \/ \E t \in IssuedTokens :
          DOMAIN content = {} /\ DeleteQr(t, 1)
    \/ GetQr(1)
    \/ \E h \in {"", "Fair"} : GetAllQr(h, "")
    \/ GetStats

Spec == Init /\ [][Next]_vars

-----------------------------------------------------------------------------
(* Sessions and the token check of every authenticated handler: logins of  *)
(* both admins, logout, expiry, and each handler called with every token,  *)
(* the writes up to the first one that is logged                           *)
AuthContent == ContentData({"id", "title"}, [ContentBlank EXCEPT !.id = 1, !.title = "T1"])
AuthQr == QrData({"treeName"}, [QrBlank EXCEPT !.treeName = "Neem B"])

(* every entry of the log is a login: no logged write has happened yet *)
FirstWrite == \A i \in 1..Len(activity_log) : activity_log[i].action = "login"

AuthLogins == {<<"kcjain@gmail.com", "admin123">>, <<"shivamsharmaanna@gmail.com", "admin123">>,
               <<"kcjain@gmail.com", "wrong">>}

NextAuth ==
    \/ Tick
    \/ \E c \in AuthLogins : Login(c[1], c[2])
    \/ \E t \in TokenInputs : Logout(t)
    \/ \E t \in TokenInputs : VerifyToken(t)
    \/ FirstWrite /\ \E t \in TokenInputs : SaveContent(t, AuthContent, <<"image">>)
    \/ FirstWrite /\ \E t \in TokenInputs : UpdateContent(t, 1, AuthContent, <<"image">>)
    \/ FirstWrite /\ \E t \in TokenInputs : DeleteContent(t, 1)
    \/ FirstWrite /\ \E t \in TokenInputs : GenerateQr(t, AuthQr, <<"image">>)
    \/ FirstWrite /\ \E t \in TokenInputs : UpdateQr(t, 1, AuthQr, <<"image">>)
    \/ FirstWrite /\ \E t \in TokenInputs : DeleteQr(t, 1)
    \/ FirstWrite /\ \E t \in TokenInputs : UpdateProfile(t, "image")
    \/ FirstWrite /\ \E t \in TokenInputs : UploadProfileImage(t, "image")
    \/ FirstWrite /\ \E t \in TokenInputs : UpdateSettings(t, "site_title", <<"str", "X">>)
    \/ \E t \in TokenInputs : GetActivity(t)

SpecAuth == Init /\ [][NextAuth]_vars

-----------------------------------------------------------------------------
(* Properties of sessions, checked under SpecAuth *)

AuthOps == {"save_content", "update_content", "delete_content", "generate_qr",
            "update_qr", "delete_qr", "update_profile", "upload_profile_image",
            "update_settings", "get_activity"}
MutatingOps == AuthOps \ {"get_activity"}

(* the token has a session row that is less than 24 hours old *)
Live(tok) == \E s \in sessions : s.token = tok /\ now < s.created_at + SESSION_TTL
(* the token has no session row: never issued, or logged out *)
Unknown(tok) == \A s \in sessions : s.token # tok
(* the token's session row is 24 hours old or older *)
Expired(tok) == \E s \in sessions : s.token = tok /\ now >= s.created_at + SESSION_TTL
(* one of the three token checks of the code lets the token through *)
Accepted(tok) == VerifyRows(tok) # {} \/ AdminInfo(tok) # 0 \/ SessionOnly(tok)

C1_Accepts ==
    \A s \in sessions :
        now < s.created_at + SESSION_TTL =>
            VerifyRows(s.token) # {} /\ AdminInfo(s.token) # 0 /\ SessionOnly(s.token)
C1_Answers == (last.op \in AuthOps \cup {"verify"} /\ Live(last.token)) => last.code # 401
C1_OnlyLogoutRemoves ==
    \A s \in sessions : s \notin sessions' => last'.op = "logout" /\ last'.token = s.token

(* C1: a token issued by login is accepted by verify and by every          *)
(* authenticated operation until logout of that token or until 24 hours    *)
(* have passed since it was issued; a session row leaves the table only in *)
(* a logout of its own token.                                              *)
C1_TokenValidUntilLogoutOrExpiry ==
    [](C1_Accepts /\ C1_Answers) /\ [][C1_OnlyLogoutRemoves]_vars

(* the second token is used for a write, 12 hours on, after the first one  *)
(* was logged out                                                          *)
C1_Witness ==
    /\ last.op = "save_content" /\ last.code = 200 /\ last.token = Token(2)
    /\ now = TickStep /\ Unknown(Token(1)) /\ Live(Token(2))

C2_Expired == \A s \in sessions : now >= s.created_at + SESSION_TTL => ~Accepted(s.token)
C2_LogoutKills ==
    \A tok \in TokenInputs : (last'.op = "logout" /\ last'.token = tok) => ~(Accepted(tok))'
C2_StaysDead == \A tok \in TokenInputs : ~Accepted(tok) => ~(Accepted(tok))'
C2_Rejects ==
    (now' = now /\ last'.op \in AuthOps \cup {"verify"} /\ ~Accepted(last'.token))
        => last'.code = 401

(* C2: a token whose session is 24 hours old is not accepted, a token is   *)
(* not accepted once its logout has answered, a token that is not accepted *)
(* is never accepted again, and a request carrying it is answered 401.     *)
C2_DeadTokenStaysDead ==
    []C2_Expired /\ [][C2_LogoutKills /\ C2_StaysDead /\ C2_Rejects]_vars

(* a write with a token that was issued and then logged out is refused *)
C2_Witness ==
    /\ last.op = "update_settings" /\ last.code = 401
    /\ last.token \in IssuedTokens /\ Unknown(last.token)

C3_Step ==
    (/\ now' = now
     /\ last'.op \in MutatingOps
     /\ (last'.token = NoToken \/ Unknown(last'.token) \/ Expired(last'.token)))
    => /\ last'.code = 401
       /\ UNCHANGED <<content, qr_data, profile_config, settings, disk, activity_log,
                      nextFile, nextQr, admin_users, sessions, nextToken>>

(* C3: a mutating request whose token is missing, unknown or expired is    *)
(* answered 401 and leaves every table, the disk and the activity log as   *)
(* they were.                                                              *)
C3_UnauthorizedChangesNothing == [][C3_Step]_vars

(* an upload with files, carrying an expired token, was refused *)
C3_Witness ==
    /\ last.op = "save_content" /\ last.code = 401 /\ last.files # <<>>
    /\ Expired(last.token)

-----------------------------------------------------------------------------
(* Properties of content and QR records, checked under Spec *)

(* the soft-deleted rows of a table *)
Deleted(tbl) == {i \in DOMAIN tbl : tbl[i].status = "Inactive"}
Kept(tbl) == DOMAIN tbl \ Deleted(tbl)
KeptOfType(t) == {i \in Kept(content) : content[i].type = t}

C4_Step ==
    /\ last'.op = "get_all_content" =>
          /\ last'.body.ids \cap Deleted(content) = {}
          /\ last'.body.total <= Cardinality(Kept(content))
    /\ last'.op = "get_all_qr" =>
          /\ last'.body.ids \cap Deleted(qr_data) = {}
          /\ last'.body.total <= Cardinality(Kept(qr_data))
    /\ last'.op = "get_stats" =>
          /\ last'.body.cases <= Cardinality(KeptOfType("case"))
          /\ last'.body.posts <= Cardinality(KeptOfType("post"))
          /\ last'.body.blogs <= Cardinality(KeptOfType("blog"))
          /\ last'.body.announcements <= Cardinality(KeptOfType("announcement"))
          /\ last'.body.totalContent <= Cardinality(Kept(content))
          /\ last'.body.qr <= Cardinality(Kept(qr_data))

(* C4: no soft-deleted content item or QR record is among the rows a list  *)
(* endpoint returns, and neither the list total nor a count of the         *)
(* statistics counts one.                                                  *)
C4_DeletedNotListed == [][C4_Step]_vars

(* a list answered while one row was deleted and another was not *)
C4_Witness ==
    /\ last.op = "get_all_content" /\ last.body.total = 1 /\ last.body.ids # {}
    /\ Deleted(content) # {}

C5_Step ==
    /\ DOMAIN content \subseteq DOMAIN content'
    /\ DOMAIN qr_data \subseteq DOMAIN qr_data'
    /\ (last'.op = "get_content" /\ last'.id \in Deleted(content)) =>
          last'.code = 404 /\ content' = content
    /\ (last'.op = "get_qr" /\ last'.id \in Deleted(qr_data)) =>
          last'.code = 404 /\ qr_data' = qr_data
    /\ (now' = now /\ last'.op = "update_content" /\ last'.id \in Deleted(content)) =>
          last'.code = 200
    /\ (now' = now /\ last'.op = "update_qr" /\ last'.id \in Deleted(qr_data)) =>
          last'.code = 200

(* C5 as stated: a GET by id of a soft-deleted content item or QR record   *)
(* answers with the record.                                                *)
C5_DeletedStillRetrievable ==
    [][/\ (last'.op = "get_content" /\ last'.id \in Deleted(content)) => last'.code = 200
       /\ (last'.op = "get_qr" /\ last'.id \in Deleted(qr_data)) => last'.code = 200]_vars

(* C5: a soft-deleted row stays in its table and an update by id still     *)
(* finds it, but GET /api/content/<id> and GET /api/qr/<id> answer 404 for *)
(* it and leave it as it is.                                               *)
C5_DeletedKeptButNotServed == [][C5_Step]_vars

(* a GET by id of a soft-deleted content item was answered 404 *)
C5_Witness ==
    last.op = "get_content" /\ last.id \in Deleted(content) /\ last.code = 404

C6_Step ==
    /\ (now' = now /\ last'.op = "delete_content" /\ last'.id \in Deleted(content)) =>
          last'.code = 200 /\ content' = content
    /\ (now' = now /\ last'.op = "delete_qr" /\ last'.id \in Deleted(qr_data)) =>
          last'.code = 200 /\ qr_data' = qr_data

(* C6: a DELETE of a record that is already soft-deleted answers success   *)
(* and leaves the row, status Inactive included, exactly as it was.        *)
C6_DeleteTwice == [][C6_Step]_vars

(* the same content item was deleted twice, the second time 12 hours on *)
C6_Witness ==
    /\ last.op = "delete_content" /\ last.code = 200 /\ last.id \in Deleted(content)
    /\ now = TickStep
    /\ \E i, j \in 1..Len(activity_log) :
          /\ i < j
          /\ activity_log[i].action = "delete" /\ activity_log[j].action = "delete"
          /\ activity_log[i].entity_id = <<"content", last.id>>
          /\ activity_log[j].entity_id = <<"content", last.id>>

(* the files of a request that were ingested as `type` *)
IngestedAs(saved, type) == {i \in 1..Len(saved) : saved[i].ok /\ saved[i].type = type}

C7_Fields(data, item) ==
    /\ "title" \in data.named => item.title = data.val.title
    /\ "type" \in data.named => item.type = data.val.type
    /\ "category" \in data.named => item.category = data.val.category

(* C7 as stated: the media array has one entry for each ingested image or  *)
(* video file.                                                             *)
C7_OneEntryPerFile ==
    [][(now' = now /\ last'.op = "save_content" /\ last'.code = 200) =>
         \A cid \in {last'.body.contentId} :
            LET saved == IngestAll(last'.files, "", nextFile, disk).saved
                got == (get_content(cid))'
            IN /\ got.code = 200
               /\ C7_Fields(last'.data, got.body.item)
               /\ Len(got.body.media) = Cardinality(IngestedAs(saved, "image"))
                                          + Cardinality(IngestedAs(saved, "video"))]_vars

(* C7: after a POST /api/content, GET /api/content/<id> returns the title, *)
(* type and category of the input, and a media array with one entry for    *)
(* each ingested image file plus a single video entry when a video file    *)
(* was ingested or the payload carries a video URL.                        *)
C7_CreateThenGet ==
    [][(now' = now /\ last'.op = "save_content" /\ last'.code = 200) =>
         \A cid \in {last'.body.contentId} :
            LET saved == IngestAll(last'.files, "", nextFile, disk).saved
                got == (get_content(cid))'
                video == IngestedAs(saved, "video") # {}
                           \/ Get(last'.data, "videoUrl", EmptyUrl) # EmptyUrl
            IN /\ got.code = 200
               /\ C7_Fields(last'.data, got.body.item)
               /\ Len(got.body.media) = Cardinality(IngestedAs(saved, "image"))
                                          + (IF video THEN 1 ELSE 0)]_vars

(* a content item was created from two video files *)
C7_Witness ==
    /\ last.op = "save_content" /\ last.code = 200 /\ last.files = <<"video", "video">>
    /\ Len(ContentMedia(content[last.body.contentId])) = 1

(* C8 as stated: an update leaves every field the payload does not set as  *)
(* it was stored: type, title, category, tags, video URL, status, views    *)
(* and creation date.                                                      *)
C8_PartialUpdate ==
    [][(now' = now /\ last'.op = "update_content" /\ last'.code = 200) =>
         LET d == last'.data
             old == content[last'.id]
             new == content'[last'.id]
             saved == IngestAll(last'.files, "", nextFile, disk).saved
         IN /\ "type" \notin d.named => new.type = old.type
            /\ "title" \notin d.named => new.title = old.title
            /\ "category" \notin d.named => new.category = old.category
            /\ "tags" \notin d.named => new.tags = old.tags
            /\ ("videoUrl" \notin d.named /\ IngestedAs(saved, "video") = {}) =>
                  new.video_url = old.video_url
            /\ new.status = old.status
            /\ new.views = old.views
            /\ new.created_date = old.created_date]_vars

C9_Step ==
    (now' = now /\ last'.op = "update_content" /\ last'.code = 200) =>
        LET old == content[last'.id].image_urls
            new == content'[last'.id].image_urls
        IN /\ last'.files = <<>> => new = old
           /\ new # old =>
                 /\ last'.files # <<>>
                 /\ \A i \in 1..Len(new) : FileOfUrl(new[i].url) \notin disk

C10_Step ==
    (/\ now' = now
     /\ last'.op = "update_content"
     /\ Live(last'.token)
     /\ last'.id \notin DOMAIN content)
    => /\ last'.code = 404
       /\ UNCHANGED <<content, qr_data, profile_config, settings, disk, activity_log,
                      nextFile, nextQr, admin_users, sessions>>

-----------------------------------------------------------------------------
(* Public reads and counters of tree records: one admin creates and        *)
(* deletes records, anyone reads them and posts to the counter endpoints,  *)
(* also on an id that no record has                                        *)
QrIds == 1..(MaxQr + 1)

NextCount ==
    \/ sessions = {} /\ Login("kcjain@gmail.com", "admin123")
    \/ \E t \in IssuedTokens : GenerateQr(t, AuthQr, <<>>)
    \/ \E t \in IssuedTokens, i \in QrIds : DeleteQr(t, i)
    \/ \E i \in QrIds : GetQr(i)
    \/ \E i \in QrIds : IncrementQrScan(i)
    \/ \E i \in QrIds : IncrementQrDownload(i)
    \/ \E i \in QrIds : IncrementQrPrint(i)

SpecCount == Init /\ [][NextCount]_vars

-----------------------------------------------------------------------------
(* Logins alone: every email and password, logout, the clock *)
NextLogin ==
    \/ Tick
    \/ \E e \in Emails, p \in Passwords : Login(e, p)
    \/ \E t \in TokenInputs : Logout(t)
    \/ \E t \in TokenInputs : VerifyToken(t)

SpecLogin == Init /\ [][NextLogin]_vars

-----------------------------------------------------------------------------
(* Properties of unknown ids and of the counters *)

CounterOps == {"increment_qr_scan", "increment_qr_download", "increment_qr_print"}

(* C11 as stated: an authenticated DELETE of, and a counter POST on, an id *)
(* that no record has is answered 404.                                     *)
C11_UnknownIdNotFound ==
    [][/\ (now' = now /\ last'.op = "delete_content" /\ Live(last'.token)
             /\ last'.id \notin DOMAIN content) => last'.code = 404
       /\ (now' = now /\ last'.op = "delete_qr" /\ Live(last'.token)
             /\ last'.id \notin DOMAIN qr_data) => last'.code = 404
       /\ (last'.op \in CounterOps /\ last'.id \notin DOMAIN qr_data) =>
             last'.code = 404]_vars

C12_Step ==
    (now' = now /\ last'.op = "get_content") =>
        /\ IF last'.id \in DOMAIN content /\ content[last'.id].status = "Active"
           THEN /\ last'.code = 200
                /\ content' = [content EXCEPT ![last'.id].views = content[last'.id].views + 1]
           ELSE /\ last'.code = 404
                /\ content' = content
        /\ UNCHANGED <<qr_data, profile_config, settings, disk, activity_log, admin_users,
                       sessions>>

(* C12: GET /api/content/<id> of an Active item answers 200 and adds 1 to  *)
(* the views of that row, every other field and row staying as it was; a   *)
(* GET of an absent or Inactive id answers 404 and changes nothing.        *)
C12_ViewCounted == [][C12_Step]_vars

(* an item was read once while a second item was never read *)
C12_Witness ==
    /\ last.op = "get_content" /\ last.code = 200
    /\ content[last.id].views = 1
    /\ \E j \in DOMAIN content : j # last.id /\ content[j].views = 0


C13_Step ==
    /\ (now' = now /\ last'.op = "generate_qr" /\ last'.code = 200) =>
          /\ last'.body.qrId \notin DOMAIN qr_data
          /\ qr_data'[last'.body.qrId].qr_scan_count = 0
    /\ (now' = now /\ last'.op = "get_qr" /\ last'.code = 200) =>
          qr_data'[last'.id].qr_scan_count = qr_data[last'.id].qr_scan_count + 1

(* C13: the tree record that POST /api/qr creates has qr_scan_count 0, and *)
(* each GET /api/qr/<id> that answers 200 adds exactly 1 to the stored     *)
(* qr_scan_count of that record.                                           *)
C13_ScanCounted == [][C13_Step]_vars

(* a record was read for the second time *)
C13_Witness ==
    /\ last.op = "get_qr" /\ last.code = 200
    /\ qr_data[last.id].qr_scan_count = 2
    /\ qr_data[last.id].qr_download_count = 0 /\ qr_data[last.id].qr_print_count = 0

CounterOf(op) ==
    CASE op = "increment_qr_scan" -> "qr_scan_count"
      [] op = "increment_qr_download" -> "qr_download_count"
      [] op = "increment_qr_print" -> "qr_print_count"

C14_Step ==
    (last'.op \in CounterOps /\ now' = now /\ last'.id \in DOMAIN qr_data) =>
        /\ last'.token = NoToken
        /\ last'.code = 200
        /\ qr_data' = [qr_data EXCEPT
                         ![last'.id][CounterOf(last'.op)] =
                             qr_data[last'.id][CounterOf(last'.op)] + 1]
        /\ UNCHANGED <<content, profile_config, settings, disk, activity_log, admin_users,
                       sessions>>

(* C14: a POST to the scan, download or print endpoint of a record, sent   *)
(* without a token, answers success and adds exactly 1 to the named        *)
(* counter of that record; its other counters and fields and every other   *)
(* record stay as they were.                                               *)
C14_CounterFrame == [][C14_Step]_vars

(* a download was counted on one of two records, the other one untouched *)
C14_Witness ==
    /\ last.op = "increment_qr_download" /\ last.code = 200
    /\ last.id \in DOMAIN qr_data
    /\ qr_data[last.id].qr_download_count = 1
    /\ qr_data[last.id].qr_scan_count = 0 /\ qr_data[last.id].qr_print_count = 0
    /\ \E j \in DOMAIN qr_data :
          /\ j # last.id
          /\ qr_data[j].qr_download_count = 0


StatTypes == {"case", "post", "blog", "announcement"}
(* the Active content rows of the four counted types *)
CountedRows == {i \in Kept(content) : content[i].type \in StatTypes}

C15_Step ==
    /\ (now' = now /\ last'.op = "get_stats") =>
          /\ last'.body.totalContent = last'.body.cases + last'.body.posts
                                         + last'.body.blogs + last'.body.announcements
          /\ last'.body.totalContent = Cardinality(CountedRows)
    /\ (now' = now /\ last'.op = "delete_content" /\ last'.code = 200
          /\ last'.id \in CountedRows) =>
          (get_stats.totalContent)' = get_stats.totalContent - 1

(* C15: GET /api/stats answers totalContent = cases + posts + blogs +      *)
(* announcements, which is the number of Active content rows of those four *)
(* types; the soft delete of such a row lowers the value by exactly 1.     *)
C15_StatsTotal == [][C15_Step]_vars

(* the statistics were read with one counted row left, after a counted row *)
(* was soft-deleted                                                        *)
C15_Witness ==
    /\ last.op = "get_stats" /\ last.body.totalContent = 1
    /\ \E i \in Deleted(content) : content[i].type \in StatTypes

-----------------------------------------------------------------------------
(* The profile image and oversize uploads: one admin replaces the image    *)
(* through either endpoint and posts content, with good, oversize and      *)
(* corrupt image files                                                     *)
NextProfile ==
    \/ now < TickStep /\ Tick
    \/ sessions = {} /\ Login("kcjain@gmail.com", "admin123")
    \/ \E t \in IssuedTokens, k \in {"image", "oversize", "corrupt", "undecodable"} :
            UpdateProfile(t, k)
    \/ \E t \in IssuedTokens, k \in {"image", "oversize"} : UploadProfileImage(t, k)
    \/ \E t \in IssuedTokens : SaveContent(t, AuthContent, <<"oversize">>)
    \/ GetProfile

SpecProfile == Init /\ [][NextProfile]_vars

(* a replace of the profile image that answered success *)
Replaced == now' = now /\ last'.op \in {"update_profile", "upload_profile_image"}
            /\ last'.code = 200

(* C16 as stated: each successful POST /api/profile stores and returns a   *)
(* version that is the stored version plus 1.                              *)
C16_VersionPlusOne ==
    [][(now' = now /\ last'.op = "update_profile" /\ last'.code = 200) =>
          /\ profile_config'.version = profile_config.version + 1
          /\ last'.body.version = profile_config'.version]_vars

(* C17 as stated: after a successful replace the image file and the        *)
(* thumbnail file the record referred to are gone from the disk unless     *)
(* they are the default placeholder, which stays on the disk.              *)
C17_OldFilesRemoved ==
    [][Replaced =>
          /\ ~IsDefaultProfile(profile_config.value) =>
                FileOfUrl(profile_config.value) \notin disk'
          /\ ~IsDefaultProfile(profile_config.thumbnail) =>
                FileOfUrl(profile_config.thumbnail) \notin disk'
          /\ FileOfUrl(DefaultProfileUrl) \in disk']_vars

(* C18 as stated: a request that carries an oversize image is answered 413 *)
(* and puts no file on the disk.                                           *)
C18_OversizeRefused ==
    [][(now' = now /\ Live(last'.token)
          /\ \E i \in 1..Len(last'.files) : last'.files[i] = "oversize") =>
          /\ last'.code = 413
          /\ disk' \subseteq disk]_vars

-----------------------------------------------------------------------------
(* Properties of login, checked under SpecLogin *)

Registered(email) == \E u \in DOMAIN admin_users : admin_users[u].email = email
RightPassword(email, password) ==
    \E u \in DOMAIN admin_users :
        admin_users[u].email = email /\ admin_users[u].password_hash = Sha256(password)

C19_Step ==
    (/\ now' = now
     /\ last'.op = "login"
     /\ LET email == Canon(last'.data.val.email) IN
        ~Registered(email) \/ ~RightPassword(email, last'.data.val.password))
    => /\ last'.code = 401
       /\ last'.body = [error |-> "Invalid email or password"]
       /\ UNCHANGED <<sessions, admin_users, activity_log, nextToken, content, qr_data,
                      profile_config, settings, disk>>

(* C19: a login with an unregistered email and a login with a registered   *)
(* email and a wrong password get the same answer, 401 with one fixed      *)
(* body, and neither adds a session row, changes a login counter or        *)
(* appends an activity-log entry.                                          *)
C19_FailedLoginsAlike == [][C19_Step]_vars

(* a login with an unregistered email and the password of an admin failed *)
C19_Witness ==
    /\ last.op = "login" /\ last.code = 401
    /\ last.data.val.email = "nobody@example.com" /\ last.data.val.password = "admin123"

C20_Step ==
    (now' = now /\ last'.op = "login" /\ last'.code = 200) =>
        \E s \in sessions' :
            /\ s \notin sessions
            /\ sessions' = sessions \cup {s}
            /\ s.token = last'.body.token
            /\ \A o \in sessions : o.token # s.token
            /\ s.expires_at = now + 86400
            /\ admin_users[s.user_id].email = Canon(last'.data.val.email)
            /\ admin_users' = [admin_users EXCEPT
                                 ![s.user_id].login_count = admin_users[s.user_id].login_count + 1,
                                 ![s.user_id].last_login = now]
            /\ Len(activity_log') = Len(activity_log) + 1
            /\ SubSeq(activity_log', 1, Len(activity_log)) = activity_log
            /\ activity_log'[Len(activity_log')].action = "login"
            /\ activity_log'[Len(activity_log')].user_id = s.user_id

(* C20: a successful login adds exactly one session row, with a token no   *)
(* other row has and an expiry 24 hours after issue, adds 1 to the         *)
(* login_count of that user, appends exactly one activity-log entry, and   *)
(* leaves every existing session row as it was.                            *)
C20_LoginFrame == [][C20_Step]_vars

(* the same admin logged in a second time while the first session exists *)
C20_Witness ==
    /\ last.op = "login" /\ last.code = 200
    /\ Cardinality(sessions) = 2
    /\ \A s \in sessions : s.user_id = 1
    /\ admin_users[1].login_count = 2

-----------------------------------------------------------------------------
(* Properties of logout *)

C21_Step ==
    (now' = now /\ last'.op = "logout") =>
        /\ last'.code = 200
        /\ Unknown(last'.token) => sessions' = sessions

(* C21: logout answers success for every token, and for a token that has   *)
(* no session row, because it was logged out before or never existed, it   *)
(* leaves the session table exactly as it was.                             *)
C21_LogoutIdempotent == [][C21_Step]_vars

(* a logout with a token that never existed, while a session is open *)
C21_Witness ==
    /\ last.op = "logout" /\ last.code = 200 /\ last.token = ForgedToken
    /\ sessions # {}

C30_Step ==
    (now' = now /\ last'.op = "logout") =>
        /\ sessions' = {s \in sessions : s.token # last'.token}
        /\ \A s \in sessions :
              (s.token # last'.token /\ Accepted(s.token)) => (Accepted(s.token))'
        /\ UNCHANGED <<admin_users, content, qr_data, profile_config, settings, disk,
                       activity_log>>

(* C30: logout removes the session rows of the given token and no other:   *)
(* every other session stays in the table and stays accepted, and no user, *)
(* content, QR, profile or settings row changes.                           *)
C30_LogoutFrame == [][C30_Step]_vars

(* the first of two sessions of the same admin was logged out, the second  *)
(* one is still live                                                       *)
C30_Witness ==
    /\ last.op = "logout" /\ last.token = Token(1)
    /\ Unknown(Token(1)) /\ Live(Token(2))
    /\ \A s \in sessions : s.user_id = 1
    /\ admin_users[1].login_count = 2

-----------------------------------------------------------------------------
(* Identity and lifetime of the stored records *)

(* C22 as stated: a successful create never answers with an id that a     *)
(* stored record already has, and leaves every stored record as it was.   *)
C22_CreateNeverReplaces ==
    [][/\ (now' = now /\ last'.op = "save_content" /\ last'.code = 200) =>
              /\ last'.body.contentId \notin DOMAIN content
              /\ \A c \in DOMAIN content : content'[c] = content[c]
       /\ (now' = now /\ last'.op = "generate_qr" /\ last'.code = 200) =>
              /\ last'.body.qrId \notin DOMAIN qr_data
              /\ \A q \in DOMAIN qr_data : qr_data'[q] = qr_data[q]]_vars

(* C26 as stated: a content record that is Inactive stays Inactive, and    *)
(* the view counter of a record never goes down.                           *)
C26_InactiveForGood ==
    [][\A c \in DOMAIN content :
          /\ c \in DOMAIN content'
          /\ content[c].status = "Inactive" => content'[c].status = "Inactive"
          /\ content'[c].views >= content[c].views]_vars

(* C23 as stated: a request that changes a content row, a QR row, the     *)
(* profile record, a setting or the session table leaves the activity log *)
(* one entry longer.                                                      *)
C23_EveryChangeLogged ==
    [][(now' = now /\ <<content, qr_data, profile_config, settings, sessions>>'
                         # <<content, qr_data, profile_config, settings, sessions>>)
          => Len(activity_log') = Len(activity_log) + 1]_vars

-----------------------------------------------------------------------------
(* Properties of file ingestion, checked under SpecProfile *)

(* C24: no temporary file is on the disk between requests, and whatever    *)
(* upload save_base64_file is called with in a reachable state it leaves   *)
(* no temporary file; for an image that fails verification it returns     *)
(* None and leaves the disk as it found it.                                *)
C24_NoTempFileLeft ==
    /\ \A f \in disk : ~f.tmp
    /\ \A k \in FileKinds, sub \in {"", "profile"} :
          LET r == save_base64_file(k, sub, nextFile, disk) IN
          /\ \A f \in r.disk : ~f.tmp
          /\ k = "corrupt" => (r.res = NoFile /\ r.disk = disk)

(* the first upload was an image that failed verification *)
C24_Witness ==
    /\ last.op = "update_profile" /\ last.files = <<"corrupt">> /\ last.code = 500
    /\ nextFile = 2
    /\ \A f \in disk : ~f.tmp

BadUploads == {"undecodable", "oversize", "corrupt"}

C29_Step ==
    (now' = now /\ last'.op = "update_profile" /\ Live(last'.token)
       /\ last'.files[1] \in BadUploads) =>
        /\ last'.code >= 400
        /\ UNCHANGED <<profile_config, activity_log>>
        /\ FileOfUrl(profile_config.value) \in disk =>
              FileOfUrl(profile_config.value) \in disk'

(* C29: a POST /api/profile whose image cannot be ingested is answered     *)
(* with an error and leaves the profile record, the image file the record  *)
(* refers to and the activity log as they were.                            *)
C29_FailedIngestionFrame == [][C29_Step]_vars

(* a failed replace of an image that had been uploaded before *)
C29_Witness ==
    /\ last.op = "update_profile" /\ last.code = 500 /\ last.files[1] \in BadUploads
    /\ ~IsDefaultProfile(profile_config.value)
    /\ FileOfUrl(profile_config.value) \in disk
    /\ profile_config.version = 1

-----------------------------------------------------------------------------
(* Store connections *)

Conn(o, c) == [opened |-> o, closed |-> c]

(* The sqlite3.connect calls and the conn.close calls on the path request  *)
(* r took through its handler, verify_admin and log_activity included.     *)
(* A handler with a token check opens and closes one connection for the    *)
(* session lookup when a token was sent, one for its own statements and    *)
(* one in log_activity.                                                    *)
ConnectionsOf(r) ==
    LET lookup == IF r.token = NoToken THEN 0 ELSE 1 IN
    CASE r.op = "login" -> IF r.code = 200 THEN Conn(5, 5) ELSE Conn(1, 1)
      [] r.op \in {"logout", "verify"} -> Conn(lookup, lookup)
      [] r.op \in {"get_all_content", "get_all_qr", "get_stats", "get_profile"}
                  \cup CounterOps -> Conn(1, 1)
      [] r.op \in {"get_content", "get_qr"} ->
            IF r.code = 404 THEN Conn(1, 0) ELSE Conn(1, 1)
      [] r.op \in {"save_content", "generate_qr", "delete_content", "delete_qr",
                   "update_settings"} ->
            IF r.code = 200 THEN Conn(3, 3) ELSE Conn(lookup, lookup)
      [] r.op \in {"update_content", "update_qr"} ->
            IF r.code = 200 THEN Conn(3, 3)
            ELSE IF r.code = 404 THEN Conn(2, 1)
            ELSE Conn(lookup, lookup)
      [] r.op = "update_profile" ->
            IF r.code = 200 THEN Conn(3, 3) ELSE Conn(lookup, lookup)
      [] r.op = "get_activity" ->
            IF r.code = 200 THEN Conn(1, 1) ELSE Conn(lookup, 0)
      [] r.op = "upload_profile_image" ->
            IF r.code \in {200, 401} THEN Conn(lookup, lookup) ELSE Conn(1, 0)
      [] OTHER -> Conn(0, 0)

(* C25 as stated: when a request has returned, every connection it opened *)
(* has been closed.                                                        *)
C25_ConnectionsReleased ==
    ConnectionsOf(last).opened = ConnectionsOf(last).closed

-----------------------------------------------------------------------------
(* Requests served concurrently.  update_content and update_profile read   *)
(* the row on their connection, compute the new row in the handler and     *)
(* write it back; another request can be served between the two.           *)

Thread(pc, op, tok, id, data, files, code) ==
    [Idle EXCEPT !.pc = pc, !.op = op, !.token = tok, !.id = id, !.data = data,
                 !.files = files, !.code = code]

(* update_content up to SELECT FROM content WHERE id = ?; the 401 and 404  *)
(* exits return at once                                                    *)
UpdateContentRead(p, tok, id, data, files) ==
    /\ inflight[p].pc = "idle"
    /\ IF AdminInfo(tok) = 0 \/ id \notin DOMAIN content
       THEN /\ Commit("update_content", tok, id, data, files,
                      update_content(tok, id, data, files))
            /\ inflight' = [inflight EXCEPT ![p] =
                   Thread("done", "update_content", tok, id, data, files,
                          update_content(tok, id, data, files).code)]
       ELSE /\ inflight' = [inflight EXCEPT ![p] =
                   [Thread("read", "update_content", tok, id, data, files, 0) EXCEPT
                      !.uid = AdminInfo(tok), !.seen = <<content[id]>>, !.at = now]]
            /\ UNCHANGED <<now, admin_users, sessions, nextToken, content, qr_data,
                           profile_config, settings, activity_log, disk, nextFile,
                           nextQr, last>>

(* update_content from the file loop to its return: the UPDATE sets the    *)
(* columns it names from the body and the row as read, and leaves id,      *)
(* created_date, status and views to the row as stored                     *)
UpdateContentWrite(p) ==
    LET t == inflight[p] IN
    /\ t.pc = "read" /\ t.op = "update_content"
    /\ LET ing == IngestAll(t.files, "", nextFile, disk)
           cur == content[t.id]
           row == UpdatedContentRow(t.seen[1], t.data, ing.saved, t.at)
           written == [row EXCEPT !.created_date = cur.created_date,
                                  !.status = cur.status, !.views = cur.views]
       IN Commit("update_content", t.token, t.id, t.data, t.files,
                 [Same EXCEPT
                    !.code = 200,
                    !.body = [error |-> "", contentId |-> t.id],
                    !.content = [content EXCEPT ![t.id] = written],
                    !.disk = ing.disk,
                    !.nextFile = nextFile + Len(t.files),
                    !.log = log_activity(activity_log, t.uid, "update", "content",
                                         <<"content", t.id>>)])
    /\ inflight' = [inflight EXCEPT ![p] = [t EXCEPT !.pc = "done", !.code = 200]]

(* update_profile up to SELECT FROM profile_config: the token check, the   *)
(* ingestion of the image and the read of the stored record; the 401 and   *)
(* 500 exits return at once                                                *)
UpdateProfileRead(p, tok, kind) ==
    LET one == save_base64_file(kind, "profile", nextFile, disk) IN
    /\ inflight[p].pc = "idle"
    /\ IF AdminInfo(tok) = 0 \/ ~one.res.ok
       THEN /\ Commit("update_profile", tok, 0, NoData, <<kind>>, update_profile(tok, kind))
            /\ inflight' = [inflight EXCEPT ![p] =
                   Thread("done", "update_profile", tok, 0, NoData, <<kind>>,
                          update_profile(tok, kind).code)]
       ELSE /\ nextFile <= MaxFiles
            /\ disk' = one.disk
            /\ nextFile' = nextFile + 1
            /\ inflight' = [inflight EXCEPT ![p] =
                   [Thread("read", "update_profile", tok, 0, NoData, <<kind>>, 0) EXCEPT
                      !.uid = AdminInfo(tok), !.seen = <<profile_config>>,
                      !.saved = one.res, !.at = now]]
            /\ UNCHANGED <<now, admin_users, sessions, nextToken, content, qr_data,
                           profile_config, settings, activity_log, nextQr, last>>

(* update_profile from the removal of the old file to its return *)
UpdateProfileWrite(p) ==
    LET t == inflight[p] IN
    /\ t.pc = "read" /\ t.op = "update_profile"
    /\ LET old == t.seen[1].value
           version == NextProfileVersion(t.seen[1])
       IN /\ Commit("update_profile", t.token, 0, NoData, t.files,
                    [Same EXCEPT
                       !.code = 200,
                       !.body = [error |-> "", profileImage |-> t.saved.url,
                                 version |-> version],
                       !.profile_config =
                           [profile_config EXCEPT
                              !.value = t.saved.url,
                              !.thumbnail = IF t.saved.thumbnail # EmptyUrl
                                            THEN t.saved.thumbnail ELSE t.saved.url,
                              !.updated_at = t.at,
                              !.meta_has_version = TRUE,
                              !.meta_version = version,
                              !.version = version],
                       !.disk = IF IsDefaultProfile(old) THEN disk
                                ELSE disk \ {FileOfUrl(old)},
                       !.log = log_activity(activity_log, t.uid, "update", "profile",
                                            <<"profile", 0>>)])
          /\ inflight' = [inflight EXCEPT ![p] =
                 [t EXCEPT !.pc = "done", !.code = 200, !.version = version]]

(* single-field bodies of PUT /api/content/<id> *)
RaceUpdates ==
    {ContentData({"title"}, [ContentBlank EXCEPT !.title = "T2"]),
     ContentData({"category"}, [ContentBlank EXCEPT !.category = "Tax"]),
     ContentData({"type"}, [ContentBlank EXCEPT !.type = "note"])}

(* One admin logs in and creates a record; then each worker thread serves  *)
(* one update of the record or one replacement of the profile image, the   *)
(* threads taking their steps in any order                                 *)
NextRace ==
    \/ now < TickStep /\ Tick
    \/ sessions = {} /\ Login("kcjain@gmail.com", "admin123")
    \/ DOMAIN content = {} /\ \E t \in IssuedTokens : SaveContent(t, AuthContent, <<>>)
    \/ \E p \in Procs, t \in IssuedTokens \cup {ForgedToken}, d \in RaceUpdates :
            UpdateContentRead(p, t, 1, d, <<>>)
    \/ \E p \in Procs : UpdateContentWrite(p)
    \/ \E p \in Procs, t \in IssuedTokens, k \in {"image", "corrupt"} :
            UpdateProfileRead(p, t, k)
    \/ \E p \in Procs : UpdateProfileWrite(p)

SpecRace == Init /\ [][NextRace]_vars

(* the threads that served `op` and answered 200 *)
Served(op) == {p \in Procs : inflight[p].pc = "done" /\ inflight[p].op = op
                              /\ inflight[p].code = 200}

(* C27 as stated: when two updates of the same record that name different *)
(* single fields have both returned success, each of the two fields holds *)
(* the value its request sent.                                            *)
C27_NoLostUpdate ==
    \A p, q \in Served("update_content") :
        (/\ inflight[p].id = inflight[q].id
         /\ Cardinality(inflight[p].data.named) = 1
         /\ Cardinality(inflight[q].data.named) = 1
         /\ inflight[p].data.named # inflight[q].data.named) =>
            \A f \in inflight[p].data.named :
                content[inflight[p].id][f] = inflight[p].data.val[f]

(* C28 as stated: when no replacement of the profile image is under way,   *)
(* the record refers to a file on the disk, the image file of every other  *)
(* successful replacement is gone, and no two of them answered the same    *)
(* version.                                                                *)
C28_ProfileRace ==
    (Served("update_profile") # {} /\ \A p \in Procs : inflight[p].pc # "read") =>
        /\ FileOfUrl(profile_config.value) \in disk
        /\ \A p \in Served("update_profile") :
              inflight[p].saved.url # profile_config.value =>
                  FileOfUrl(inflight[p].saved.url) \notin disk
        /\ \A p, q \in Served("update_profile") :
              p # q => inflight[p].version # inflight[q].version

====
